---- MODULE Spec2Model ----
(***************************************************************************)
(* A model of quark-signal's Signal class (src/src/index.js): the listener *)
(* registry (_listeners), the dispatch counter (_dispatchNb) and the       *)
(* operations add, once, remove, removeAll, dispatch and getListenersNb.   *)
(*                                                                         *)
(* dispatch runs the listeners' callbacks in-line, and a callback is user  *)
(* code that may call any operation of the signal before it returns.  The  *)
(* dispatch calls in progress are therefore kept on a stack of frames, one *)
(* per call, each suspended inside the callback it invoked at line 157.    *)
(* Operations are enabled at the top level (empty stack) and inside the    *)
(* callback of the innermost frame.                                        *)
(***************************************************************************)
EXTENDS Integers, Sequences, FiniteSets, TLC

VARIABLES
    engine,      \* which Array.prototype.sort the host provides (fixed per run)
    listeners,   \* this._listeners
    dispatchNb,  \* this._dispatchNb
    stack,       \* the dispatch calls in progress, innermost last
    thrown       \* the exception in flight, or delivered by the last top-level call

vars == <<engine, listeners, dispatchNb, stack, thrown>>

----------------------------------------------------------------------------
(* Bounds of the model *)

\* add and once are called while fewer listeners than this are registered
MaxListeners == 3
\* dispatch is called while the counter is below this
MaxDispatches == 2
\* a callback calls at most this many operations of the signal per invocation
MaxCallbackCalls == 1

(* Program constant *)
MAX_DISPATCH_NB == 512

----------------------------------------------------------------------------
(* Values *)

\* A JavaScript value that may be undefined: <<>> is undefined, <<v>> is v.
Undefined == <<>>
Some(v) == <<v>>

Functions == {"f", "g"}
NonFunctions == {"null"}
Callbacks == Functions \cup NonFunctions

\* Eleven distinct functions, for a signal with many listeners.
Handlers == <<"f", "g", "h3", "h4", "h5", "h6", "h7", "h8", "h9", "h10", "h11">>

\* "this" is the Signal instance, "obj" any other object.
Contexts == {"this", "obj"}

Priorities == {0, 1}

\* add's default parameter, used when no options argument is passed.
DefaultOptions == [priority |-> Some(0), once |-> FALSE, context |-> Some("this")]

\* once's default parameter {}.
EmptyOptions == [priority |-> Undefined, once |-> FALSE, context |-> Undefined]

\* The options arguments passed: each of priority and context given or left
\* out, once by its truthiness (left out is falsy); and add's default.
Options ==
    [priority : {Undefined} \cup {Some(p) : p \in Priorities},
     once     : BOOLEAN,
     context  : {Undefined, Some("obj")}]
    \cup {DefaultOptions}

\* The arguments of add and once: any options with a function; a value that
\* is no function with or without options.
AddArguments ==
    (Functions \X Options) \cup (NonFunctions \X {DefaultOptions, EmptyOptions})

\* once overwrites options.once
OnceArguments == {a \in AddArguments : ~a[2].once}

ArgLists == {<<"x", "y">>}

\* What a callback returns.
ReturnValues == {"false", "undefined", "zero"}

Engines == {"QuickSort", "TimSort"}

Range(s) == {s[k] : k \in 1..Len(s)}

----------------------------------------------------------------------------
(* Pure helpers *)

\* (variant for C10: the test typeof cb !== 'undefined')
IsDefined(cb) == cb # "undefined"

\* typeof cb === 'function'
IsFunction(cb) == cb \in Functions \cup {Handlers[k] : k \in 1..Len(Handlers)}

\* (variant for C12: { ...options, context: this, function: cb })
MakeListenerOwnContext(cb, options) ==
    [context  |-> "this",
     priority |-> options.priority,
     once     |-> options.once,
     function |-> cb]

\* { context: this, ...options, function: cb }
MakeListener(cb, options) ==
    [context  |-> IF options.context = Undefined THEN "this" ELSE options.context[1],
     priority |-> options.priority,
     once     |-> options.once,
     function |-> cb]

\* _getListernerIndex: the 0-based index of the first record with that
\* callback and context, -1 when there is none.
RECURSIVE GetListernerIndexFrom(_, _, _, _)
GetListernerIndexFrom(ls, cb, context, i) ==
    IF i >= Len(ls) THEN -1
    ELSE IF ls[i + 1].function = cb /\ ls[i + 1].context = context THEN i
    ELSE GetListernerIndexFrom(ls, cb, context, i + 1)

\* (variant for C8: the loop starting at i = 1)
GetListernerIndexSkipFirst(ls, cb, context) ==
    GetListernerIndexFrom(ls, cb, context, 1)

\* (variant for C9: the context not compared)
GetListernerIndexAnyContext(ls, cb, context) ==
    IF \E k \in 1..Len(ls) : ls[k].function = cb
    THEN (CHOOSE k \in 1..Len(ls) :
              /\ ls[k].function = cb
              /\ \A j \in 1..(k - 1) : ls[j].function # cb) - 1
    ELSE -1

\* (variant for C18: the loop ending at i < listenersLength - 1)
GetListernerIndexSkipLast(ls, cb, context) ==
    IF ls = <<>> THEN -1
    ELSE GetListernerIndexFrom(SubSeq(ls, 1, Len(ls) - 1), cb, context, 0)

GetListernerIndex(ls, cb, context) == GetListernerIndexFrom(ls, cb, context, 0)

\* (variant for C19: splice(start + 1))
SpliceAfter(array, start) ==
    SubSeq(array, 1, IF start < Len(array) THEN start + 1 ELSE Len(array))

\* What array.splice(start) leaves of the array, for 0 <= start <= length:
\* without a delete count it removes every element from index start on.
Splice(array, start) == SubSeq(array, 1, start)

\* a.priority < b.priority on values that may be undefined: undefined
\* converts to NaN and every comparison with NaN is false.
LessThan(x, y) == x # Undefined /\ y # Undefined /\ x[1] < y[1]

\* The comparator (a, b) => a.priority < b.priority, its boolean result
\* converted to a number by sort: true is 1, false is 0.
ComparePriority(a, b) == IF LessThan(a.priority, b.priority) THEN 1 ELSE 0

----------------------------------------------------------------------------
(* Array.prototype.sort.  The comparator never returns a negative number,  *)
(* so it is not a consistent comparison function and the resulting order   *)
(* is implementation-defined; nor was the sort required to be stable when  *)
(* the package was written.  Two implementations are modelled: the sort of *)
(* V8 up to 6.x (an insertion sort for at most 10 elements, a quicksort    *)
(* above) and the TimSort of V8 from 7.0 on (arrays shorter than 64        *)
(* elements: one run count followed by a binary insertion sort).           *)

\* InsertionSort's inner loop: shift the elements that compare greater than
\* element, from the end of the sorted prefix s, and put element there.
RECURSIVE InsertElement(_, _)
InsertElement(s, element) ==
    IF s = <<>> THEN <<element>>
    ELSE LET tmp == s[Len(s)] IN
         IF ComparePriority(tmp, element) > 0
         THEN Append(InsertElement(SubSeq(s, 1, Len(s) - 1), element), tmp)
         ELSE Append(s, element)

RECURSIVE InsertionSort(_)
InsertionSort(a) ==
    IF Len(a) <= 1 THEN a
    ELSE InsertElement(InsertionSort(SubSeq(a, 1, Len(a) - 1)), a[Len(a)])

\* InsertionSort(a, from, to) on the elements from (0-based) up to to - 1.
InsertionSortRange(a, from, to) ==
    SubSeq(a, 1, from) \o InsertionSort(SubSeq(a, from + 1, to))
        \o SubSeq(a, to + 1, Len(a))

\* QuickSort's choice of a pivot among the first, the last and the middle
\* element: v0 and v1 go back to the ends of the range, v2 is the pivot.
MedianOfThree(first, last, middle) ==
    LET c01 == ComparePriority(first, last)
        v0 == IF c01 > 0 THEN last ELSE first
        v1 == IF c01 > 0 THEN first ELSE last
    IN  IF ComparePriority(v0, middle) >= 0
        THEN [v0 |-> middle, v1 |-> v0, v2 |-> v1]
        ELSE IF ComparePriority(v1, middle) > 0
        THEN [v0 |-> v0, v1 |-> middle, v2 |-> v1]
        ELSE [v0 |-> v0, v1 |-> v1, v2 |-> middle]

\* The do-while loop of the partition: high_start goes down to the first
\* element that does not compare greater than the pivot, or to i.
RECURSIVE ScanDown(_, _, _, _)
ScanDown(a, pivot, i, high_start) ==
    LET h == high_start - 1 IN
    IF h = i THEN i
    ELSE IF ComparePriority(a[h + 1], pivot) > 0
    THEN ScanDown(a, pivot, i, h)
    ELSE h

\* QuickSort's partition loop, from index i (0-based).
RECURSIVE Partition(_, _, _, _, _)
Partition(a, pivot, i, low_end, high_start) ==
    IF i >= high_start
    THEN [array |-> a, low_end |-> low_end, high_start |-> high_start]
    ELSE LET element == a[i + 1]
             order == ComparePriority(element, pivot)
         IN
         IF order < 0
         THEN Partition([a EXCEPT ![i + 1] = a[low_end + 1],
                                  ![low_end + 1] = element],
                        pivot, i + 1, low_end + 1, high_start)
         ELSE IF order > 0
         THEN LET h == ScanDown(a, pivot, i, high_start) IN
              IF h = i
              THEN [array |-> a, low_end |-> low_end, high_start |-> h]
              ELSE LET top_element == a[h + 1]
                       b == [a EXCEPT ![i + 1] = top_element, ![h + 1] = element]
                   IN  IF ComparePriority(top_element, pivot) < 0
                       THEN Partition([b EXCEPT ![i + 1] = b[low_end + 1],
                                                ![low_end + 1] = top_element],
                                      pivot, i + 1, low_end + 1, h)
                       ELSE Partition(b, pivot, i + 1, low_end, h)
         ELSE Partition(a, pivot, i + 1, low_end, high_start)

\* QuickSort(a, from, to) on the elements from (0-based) up to to - 1, for
\* ranges of at most 1000 elements (above, the middle element is chosen by
\* sampling).
RECURSIVE QuickSortRange(_, _, _)
QuickSortRange(a, from, to) ==
    IF to - from <= 10 THEN InsertionSortRange(a, from, to)
    ELSE LET third_index == from + ((to - from) \div 2)
             m == MedianOfThree(a[from + 1], a[to], a[third_index + 1])
             b == [a EXCEPT ![from + 1] = m.v0, ![to] = m.v1]
             c == [b EXCEPT ![third_index + 1] = b[from + 2],
                            ![from + 2] = m.v2]
             p == Partition(c, m.v2, from + 2, from + 1, to - 1)
         IN  IF to - p.high_start < p.low_end - from
             THEN QuickSortRange(QuickSortRange(p.array, p.high_start, to),
                                 from, p.low_end)
             ELSE QuickSortRange(QuickSortRange(p.array, from, p.low_end),
                                 p.high_start, to)

QuickSort(a) == QuickSortRange(a, 0, Len(a))

Reverse(s) == [k \in 1..Len(s) |-> s[Len(s) + 1 - k]]

\* CountAndMakeRun's loop: the length of the run that starts the array;
\* idx is the (1-based) position of the next element to look at.
RECURSIVE RunEnd(_, _, _)
RunEnd(a, idx, isDescending) ==
    IF idx > Len(a) THEN Len(a)
    ELSE LET order == ComparePriority(a[idx], a[idx - 1]) IN
         IF (isDescending /\ order >= 0) \/ (~isDescending /\ order < 0)
         THEN idx - 1
         ELSE RunEnd(a, idx + 1, isDescending)

\* CountAndMakeRun on an array of at least 2 elements: the run's length and
\* the array with a descending run reversed.
CountAndMakeRun(a) ==
    LET isDescending == ComparePriority(a[2], a[1]) < 0
        n == RunEnd(a, 3, isDescending)
    IN [run   |-> n,
        array |-> IF isDescending
                  THEN Reverse(SubSeq(a, 1, n)) \o SubSeq(a, n + 1, Len(a))
                  ELSE a]

\* BinaryInsertionSort's search of pivot's place in a[left..right-1] (0-based).
RECURSIVE BinarySearch(_, _, _, _)
BinarySearch(a, pivot, left, right) ==
    IF left >= right THEN left
    ELSE LET mid == left + ((right - left) \div 2) IN
         IF ComparePriority(pivot, a[mid + 1]) < 0
         THEN BinarySearch(a, pivot, left, mid)
         ELSE BinarySearch(a, pivot, mid + 1, right)

\* BinaryInsertionSort: a[0..start-1] is sorted; insert a[start], a[start+1], ...
RECURSIVE BinaryInsertionSort(_, _)
BinaryInsertionSort(a, start) ==
    IF start >= Len(a) THEN a
    ELSE LET pivot == a[start + 1]
             left == BinarySearch(a, pivot, 0, start)
             moved == SubSeq(a, 1, left) \o <<pivot>> \o SubSeq(a, left + 1, start)
                          \o SubSeq(a, start + 2, Len(a))
         IN BinaryInsertionSort(moved, start + 1)

TimSort(a) ==
    IF Len(a) < 2 THEN a
    ELSE LET r == CountAndMakeRun(a) IN BinaryInsertionSort(r.array, r.run)

\* this._listeners.sort((a, b) => a.priority < b.priority)
SortListeners(ls) ==
    IF engine = "QuickSort" THEN QuickSort(ls) ELSE TimSort(ls)

----------------------------------------------------------------------------
(* State *)

\* (variant for C13: dispatch () instead of dispatch (...args))
FrameWithoutArgs(args, len) ==
    [args |-> <<>>, i |-> 0, listenersLength |-> len, listener |-> Undefined,
     calls |-> 0, changes |-> {}]

\* A dispatch call in progress, suspended in the callback it invoked: the
\* arguments, the loop variables i and listenersLength and the record being
\* invoked (const listener).  Two fields are not in the code: calls counts
\* the operations the running callback has called (for MaxCallbackCalls),
\* and changes is history, the kinds of operation that have changed
\* this._listeners since the dispatch call began.
Frame(args, len) ==
    [args |-> args, i |-> 0, listenersLength |-> len, listener |-> Undefined,
     calls |-> 0, changes |-> {}]

Top == stack[Len(stack)]
Rest == SubSeq(stack, 1, Len(stack) - 1)

\* An operation can be called at the top level, or by the callback that the
\* innermost dispatch is running, unless an exception is unwinding it.
CanCall == stack = <<>> \/ thrown = "none"

InCallback == stack # <<>> /\ thrown = "none"

\* The stack once the running callback (if any) has called an operation.
Called(s) ==
    IF s = <<>> THEN s ELSE [s EXCEPT ![Len(s)].calls = @ + 1]

\* The stack once an operation of that kind has changed this._listeners.
Changed(s, kind) ==
    [k \in 1..Len(s) |-> [s[k] EXCEPT !.changes = @ \cup {kind}]]

Init ==
    /\ engine \in Engines
    /\ listeners = <<>>
    /\ dispatchNb = 0
    /\ stack = <<>>
    /\ thrown = "none"

----------------------------------------------------------------------------
(* Operations *)

\* What a call of add, once, remove or removeAll makes of the signal: its
\* fields after the call, and the exception thrown ("none": it returns this).
Outcome(ls, nb, exception) ==
    [listeners |-> ls, dispatchNb |-> nb, thrown |-> exception]

\* add(cb, options)
AddOutcome(cb, options) ==
    LET listener == MakeListener(cb, options) IN
    IF ~IsFunction(listener.function)
    THEN Outcome(listeners, dispatchNb, "InvalidArgument")
    ELSE IF GetListernerIndex(listeners, listener.function, listener.context) # -1
    THEN Outcome(listeners, dispatchNb, "DuplicateListener")
    ELSE Outcome(SortListeners(Append(listeners, listener)), dispatchNb, "none")

\* once(cb, options)
OnceOutcome(cb, options) == AddOutcome(cb, [options EXCEPT !.once = TRUE])

\* remove(cb, context)
RemoveOutcome(cb, context) ==
    IF ~IsFunction(cb)
    THEN Outcome(listeners, dispatchNb, "InvalidArgument")
    ELSE LET listenerId == GetListernerIndex(listeners, cb, context) IN
         IF listenerId = -1
         THEN Outcome(listeners, dispatchNb, "ListenerNotFound")
         ELSE \* splice(listenerId): drops every element from listenerId on
              Outcome(Splice(listeners, listenerId), dispatchNb, "none")

\* (variant for C17: removeAll also resetting this._dispatchNb)
RemoveAllOutcomeResetting == Outcome(<<>>, 0, "none")

\* removeAll()
RemoveAllOutcome == Outcome(<<>>, dispatchNb, "none")

\* A call with that outcome takes place; kind is how it changes the
\* listeners when it succeeds.
Call(out, kind) ==
    /\ CanCall
    /\ listeners' = out.listeners
    /\ dispatchNb' = out.dispatchNb
    /\ thrown' = out.thrown
    /\ stack' = IF out.thrown = "none"
                THEN Changed(Called(stack), kind)
                ELSE Called(stack)
    /\ engine' = engine

AddCall(cb, options) == Call(AddOutcome(cb, options), "add")

OnceCall(cb, options) == Call(OnceOutcome(cb, options), "add")

RemoveCall(cb, context) == Call(RemoveOutcome(cb, context), "remove")

RemoveAllCall == Call(RemoveAllOutcome, "remove")

\* signal.has(cb): class Signal defines no method has (nor does
\* Object.prototype), so signal.has is undefined and the call throws a
\* TypeError (signal.has is not a function) without returning a value.
HasOutcome(cb) ==
    [returned |-> Undefined, listeners |-> listeners, dispatchNb |-> dispatchNb,
     thrown |-> "NotAFunction"]

\* getListenersNb(): no side effect
GetListenersNb == Len(listeners)

\* dispatch's loop from the test i < listenersLength of frame f up to the
\* next callback invocation, or to the end of the call; rest is the stack
\* under f.
RunLoop(rest, f) ==
    IF f.i >= f.listenersLength
    THEN \* the loop is over: return this
         /\ stack' = rest
         /\ thrown' = "none"
         /\ listeners' = listeners
    ELSE IF f.i >= Len(listeners)
    THEN \* this._listeners[i] is undefined: listener.once throws a TypeError
         /\ stack' = rest
         /\ thrown' = "UndefinedListener"
         /\ listeners' = listeners
    ELSE LET listener == listeners[f.i + 1]
             invoking == [f EXCEPT !.listener = listener, !.calls = 0]
         IN  /\ thrown' = "none"
             /\ IF listener.once
                THEN \* splice(i): drops every element from i on
                     /\ listeners' = Splice(listeners, f.i)
                     /\ stack' = Changed(Append(rest, invoking), "once")
                ELSE /\ listeners' = listeners
                     /\ stack' = Append(rest, invoking)

\* (variant for C5: the test this._dispatchNb >= MAX_DISPATCH_NB)
LimitReached(nb) == nb >= MAX_DISPATCH_NB

\* this._dispatchNb > MAX_DISPATCH_NB
LimitExceeded(nb) == nb > MAX_DISPATCH_NB

\* dispatch(...args), up to its first callback invocation
DispatchCall(args) ==
    /\ CanCall
    /\ dispatchNb' = dispatchNb + 1
    /\ IF LimitExceeded(dispatchNb')
       THEN /\ thrown' = "DispatchLimitExceeded"
            /\ listeners' = listeners
            /\ stack' = Called(stack)
       ELSE RunLoop(Called(stack), Frame(args, Len(listeners)))
    /\ engine' = engine

\* The callback of the innermost dispatch returns value; the dispatch goes
\* on to its next callback invocation, or to its end.
Return(value) ==
    /\ InCallback
    /\ IF value = "false"
       THEN \* propagation === false: break, return this
            /\ stack' = Rest
            /\ thrown' = "none"
            /\ listeners' = listeners
       ELSE RunLoop(Rest, [Top EXCEPT !.i = @ + 1])
    /\ UNCHANGED <<engine, dispatchNb>>

\* The callback catches the exception thrown by the operation it called.
Catch ==
    /\ stack # <<>>
    /\ thrown # "none"
    /\ thrown' = "none"
    /\ UNCHANGED <<engine, listeners, dispatchNb, stack>>

\* The callback does not catch it: the exception leaves the callback and the
\* dispatch call that invoked it (dispatch has no handler).
Unwind ==
    /\ stack # <<>>
    /\ thrown # "none"
    /\ stack' = Rest
    /\ UNCHANGED <<engine, listeners, dispatchNb, thrown>>

----------------------------------------------------------------------------
(* The signal used by any caller and any callbacks, within the bounds *)

\* The running callback, if any, may still call an operation.
MayCall == IF stack = <<>> THEN TRUE ELSE Top.calls < MaxCallbackCalls

Add == \E a \in AddArguments :
           MayCall /\ Len(listeners) < MaxListeners /\ AddCall(a[1], a[2])

Once == \E a \in OnceArguments :
            MayCall /\ Len(listeners) < MaxListeners /\ OnceCall(a[1], a[2])

Remove == \E cb \in Callbacks, context \in Contexts :
              MayCall /\ RemoveCall(cb, context)

RemoveAll == MayCall /\ RemoveAllCall

Dispatch == \E args \in ArgLists :
                MayCall /\ dispatchNb < MaxDispatches /\ DispatchCall(args)

CallbackReturn == \E value \in ReturnValues : Return(value)

Next ==
    \/ Add
    \/ Once
    \/ Remove
    \/ RemoveAll
    \/ Dispatch
    \/ CallbackReturn
    \/ Catch
    \/ Unwind

Spec == Init /\ [][Next]_vars

----------------------------------------------------------------------------
(* The signal used from the top level only: the callbacks call nothing *)

NextTop ==
    \/ stack = <<>> /\ Add
    \/ stack = <<>> /\ Once
    \/ stack = <<>> /\ Remove
    \/ stack = <<>> /\ RemoveAll
    \/ stack = <<>> /\ Dispatch
    \/ CallbackReturn

SpecTop == Init /\ [][NextTop]_vars

(* The registry alone: no dispatch *)

NextRegistry ==
    \/ Add
    \/ Once
    \/ Remove
    \/ RemoveAll

SpecRegistry == Init /\ [][NextRegistry]_vars

----------------------------------------------------------------------------
(* A signal to which listeners are added one after the other, each with    *)
(* its own callback and a priority (the test 'create a signal with         *)
(* mutilple listeners', with more of them), and emptied.                   *)

AddNext ==
    /\ stack = <<>>
    /\ Len(listeners) < Len(Handlers)
    /\ \E p \in Priorities :
          AddCall(Handlers[Len(listeners) + 1],
                  [priority |-> Some(p), once |-> FALSE, context |-> Undefined])

NextMany ==
    \/ AddNext
    \/ stack = <<>> /\ RemoveAll

SpecMany == Init /\ [][NextMany]_vars

----------------------------------------------------------------------------
(* A signal whose listeners' callbacks call dispatch with arguments of     *)
(* their own (nested dispatch calls).                                      *)

MoreArgLists == {<<"x", "y">>, <<"y", "x">>, <<"x">>}

ArgsAdd ==
    /\ stack = <<>>
    /\ Len(listeners) < MaxListeners
    /\ \E cb \in Functions, context \in {Undefined, Some("obj")} :
          AddCall(cb, [priority |-> Some(0), once |-> FALSE, context |-> context])

ArgsDispatch == \E args \in MoreArgLists :
                    MayCall /\ dispatchNb < MaxDispatches /\ DispatchCall(args)

NextArgs ==
    \/ ArgsAdd
    \/ ArgsDispatch
    \/ CallbackReturn

SpecArgs == Init /\ [][NextArgs]_vars

----------------------------------------------------------------------------
(* A long-lived signal: one callback, registered and removed at the top    *)
(* level, and dispatch called again and again, at the top level and by the *)
(* callback, up to a few calls beyond the limit.                           *)

CountRegister ==
    /\ stack = <<>>
    /\ \/ AddCall("f", DefaultOptions)
       \/ OnceCall("f", EmptyOptions)
       \/ RemoveCall("f", "this")
       \/ RemoveAllCall

CountDispatch ==
    /\ MayCall
    /\ Len(stack) < MaxDispatches
    /\ dispatchNb <= MAX_DISPATCH_NB + 1
    /\ DispatchCall(<<>>)

NextCount ==
    \/ CountRegister
    \/ CountDispatch
    \/ CallbackReturn
    \/ Catch
    \/ Unwind

SpecCount == Init /\ [][NextCount]_vars

----------------------------------------------------------------------------
(* A signal with listeners and once listeners, registered at the top       *)
(* level, whose callbacks call dispatch (and catch its errors or not).     *)

NestedAdd ==
    /\ stack = <<>>
    /\ Len(listeners) < MaxListeners
    /\ \E cb \in Functions, once \in BOOLEAN, context \in {Undefined, Some("obj")} :
          AddCall(cb, [priority |-> Some(0), once |-> once, context |-> context])

NextNested ==
    \/ NestedAdd
    \/ Dispatch
    \/ CallbackReturn
    \/ Catch
    \/ Unwind

SpecNested == Init /\ [][NextNested]_vars

----------------------------------------------------------------------------
(* A fresh signal with one listener whose callback calls dispatch on the   *)
(* signal and catches nothing (the test 'create a signal that dispatch     *)
(* itself').  The calls run to completion, hence the weak fairness.        *)

SelfAdd ==
    /\ listeners = <<>>
    /\ dispatchNb = 0
    /\ AddCall("f", DefaultOptions)

\* the outermost dispatch(), then the one each invocation of the callback makes
SelfDispatch ==
    /\ listeners # <<>>
    /\ thrown = "none"
    /\ stack = <<>> => dispatchNb = 0
    /\ DispatchCall(<<>>)

NextSelf ==
    \/ SelfAdd
    \/ SelfDispatch
    \/ Unwind

SpecSelf == Init /\ [][NextSelf]_vars /\ WF_vars(NextSelf)

----------------------------------------------------------------------------
(* Steps, as the claims speak of them *)

\* The pair (cb, context) is registered.
Registered(ls, cb, context) ==
    \E r \in Range(ls) : r.function = cb /\ r.context = context

\* The position of record r in ls (the pairs of ls are distinct).
IndexOf(ls, r) == CHOOSE k \in 1..Len(ls) : ls[k] = r

\* This step is a dispatch call or a callback return that invokes record r.
Invokes(r) ==
    \/ /\ \E args \in ArgLists \cup {<<>>} : DispatchCall(args)
       /\ Len(stack') = Len(stack) + 1
       /\ stack'[Len(stack')].listener = r
    \/ /\ \E value \in ReturnValues : Return(value)
       /\ Len(stack') = Len(stack)
       /\ stack'[Len(stack')].listener = r

\* The receiver (the value of this) of the callback invocation of a frame:
\* listener.function.call(listener.context, ...args)
Receiver(frame) == frame.listener.context

\* The arguments of the callback invocation of a frame:
\* listener.function.call(listener.context, ...args)
Arguments(frame) == frame.args

\* This step is a callback return after which the same dispatch call
\* invokes its next listener.
GoesOn ==
    /\ \E value \in ReturnValues : Return(value)
    /\ Len(stack') = Len(stack)
    /\ thrown' = "none"
    /\ stack'[Len(stack')].i = Top.i + 1

----------------------------------------------------------------------------
(* C1: each successful remove(cb, context) removes exactly the record      *)
(* matching (cb, context), so that getListenersNb() goes down by one and   *)
(* every other record registered before the call is registered after it    *)
(* (the count is the successful add/once calls minus the remove calls).    *)
C1_RemoveRemovesOneRecord ==
    [][\A cb \in Functions, context \in Contexts :
         (RemoveCall(cb, context) /\ Registered(listeners, cb, context))
         => /\ Len(listeners') = GetListenersNb - 1
            /\ \A r \in Range(listeners) :
                 (r \in Range(listeners'))
                     <=> ~(r.function = cb /\ r.context = context)]_vars

(* C2: a listener registered via once stays registered until a dispatch    *)
(* invokes it (short of a remove or removeAll call), and is no longer      *)
(* registered once a dispatch has invoked it; being read from the          *)
(* registered records, it is then invoked at most once.                    *)
C2_OnceRegisteredUntilInvoked ==
    [][\A r \in Range(listeners) :
         r.once =>
            /\ (r \notin Range(listeners'))
                   => \/ Invokes(r)
                      \/ RemoveAllCall
                      \/ \E cb \in Functions, context \in Contexts :
                             RemoveCall(cb, context)
            /\ Invokes(r) => r \notin Range(listeners')]_vars

(* C3: when a dispatch invokes two registered listeners with priorities    *)
(* p1 < p2, it invokes the one of priority p2 first: while no operation    *)
(* has changed the listeners since the dispatch call began, the listener   *)
(* it goes on to never has a higher priority than the one it comes from.   *)
C3_HigherPriorityFirst ==
    [][(GoesOn /\ stack'[Len(stack')].changes = {})
         => ~LessThan(Top.listener.priority,
                      stack'[Len(stack')].listener.priority)]_vars

(* C4: a callback returning false ends the dispatch call at once, no later *)
(* listener being invoked; after any other return value the dispatch goes  *)
(* on to the next listener, when there is one in the order and no callback *)
(* has changed the listeners during the call.                              *)
C4_FalseStopsPropagation ==
    [][/\ Return("false") => (stack' = Rest /\ thrown' = "none")
       /\ \A value \in ReturnValues \ {"false"} :
            (/\ Return(value)
             /\ Top.i + 1 < Top.listenersLength
             /\ Top.changes \subseteq {"once"})
            => GoesOn]_vars

(* C6: when callbacks call remove or removeAll during a dispatch (and      *)
(* nothing else changes the listeners during it), the dispatch raises no   *)
(* error: each callback return is followed by the next invocation or by    *)
(* the normal end of the call.                                             *)
C6_RemoveDuringDispatchIsSafe ==
    [][(/\ \E value \in ReturnValues : Return(value)
        /\ Top.changes = {"remove"})
         => thrown' = "none"]_vars

----------------------------------------------------------------------------
(* C5: a listener that calls dispatch on its own signal does not recurse   *)
(* forever.  On a fresh signal with that single listener, the error        *)
(* DispatchLimitExceeded is raised by the dispatch call that brings the    *)
(* counter above 512, when the listener has been invoked exactly 512 times *)
(* (once by each of the 512 calls in progress); no other error is raised;  *)
(* and the error ends up out of the outermost dispatch.                    *)
C5_SelfDispatchEnds ==
    /\ [][(thrown = "none" /\ thrown' # "none")
            => /\ thrown' = "DispatchLimitExceeded"
               /\ dispatchNb' = MAX_DISPATCH_NB + 1
               /\ Len(stack) = MAX_DISPATCH_NB
               /\ \A k \in 1..Len(stack) : stack[k].i = 0]_vars
    /\ <>[](stack = <<>> /\ thrown = "DispatchLimitExceeded")

C5_Witness ==
    /\ stack = <<>>
    /\ thrown = "DispatchLimitExceeded"
    /\ dispatchNb = MAX_DISPATCH_NB + 1
    /\ Len(listeners) = 1

(* C7: a successful add or once places the new listener after every        *)
(* registered listener of the same priority, and keeps the relative order  *)
(* of the registered listeners of equal priority; dispatch invokes the     *)
(* listeners in that order.                                                *)
C7_EqualPriorityInsertionOrder ==
    [][(Len(listeners') = Len(listeners) + 1)
         => /\ Range(listeners) \subseteq Range(listeners')
            /\ \A r, q \in Range(listeners) :
                 (/\ r.priority = q.priority
                  /\ IndexOf(listeners, r) < IndexOf(listeners, q))
                     => IndexOf(listeners', r) < IndexOf(listeners', q)
            /\ \A new \in Range(listeners') \ Range(listeners) :
                 \A r \in Range(listeners) :
                     r.priority = new.priority
                         => IndexOf(listeners', r) < IndexOf(listeners', new)]_vars

C9_RemoveUnknownFails ==
    \A cb \in Functions, context \in Contexts :
        ~Registered(listeners, cb, context)
        => RemoveOutcome(cb, context) =
               Outcome(listeners, dispatchNb, "ListenerNotFound")

\* a failed remove while every function is registered, under obj only
C9_Witness ==
    /\ thrown = "ListenerNotFound"
    /\ \A cb \in Functions : Registered(listeners, cb, "obj")
    /\ \A r \in Range(listeners) : r.context = "obj"

(* C10: add, once and remove called with a callback that is no function    *)
(* fail with InvalidArgument and leave the listeners and the dispatch      *)
(* counter as they were.                                                   *)
C10_NonFunctionRejected ==
    \A cb \in NonFunctions :
        /\ \A options \in Options \cup {EmptyOptions} :
              /\ AddOutcome(cb, options) =
                     Outcome(listeners, dispatchNb, "InvalidArgument")
              /\ OnceOutcome(cb, options) =
                     Outcome(listeners, dispatchNb, "InvalidArgument")
        /\ \A context \in Contexts :
              RemoveOutcome(cb, context) =
                  Outcome(listeners, dispatchNb, "InvalidArgument")

C10_Witness ==
    /\ thrown = "InvalidArgument"
    /\ listeners # <<>>
    /\ dispatchNb > 0

----------------------------------------------------------------------------
(* C11: a listener registered without a priority is ordered as one of      *)
(* priority 0.  While no operation has changed the listeners since the     *)
(* dispatch call began, a dispatch never goes on from a listener without   *)
(* priority to one of positive priority, nor from one of negative priority *)
(* to one without priority.                                                *)
C11_PriorityDefaultsToZero ==
    [][(GoesOn /\ stack'[Len(stack')].changes = {})
         => LET earlier == Top.listener.priority
                later == stack'[Len(stack')].listener.priority
            IN  /\ earlier = Undefined => ~LessThan(Some(0), later)
                /\ later = Undefined => ~LessThan(earlier, Some(0))]_vars

----------------------------------------------------------------------------
(* C12: every invocation made by dispatch calls the callback of a          *)
(* registered record with the record's context as receiver; and the        *)
(* context of the record that add or once registers is the context given   *)
(* in the options, or the signal itself when the options give none or no   *)
(* options are passed.                                                     *)
C12_ReceiverIsContext ==
    /\ [](\A a \in AddArguments :
            LET out == AddOutcome(a[1], a[2]) IN
            out.thrown = "none"
            => \E r \in Range(out.listeners) \ Range(listeners) :
                  /\ r.function = a[1]
                  /\ r.context = IF a[2].context = Undefined
                                 THEN "this" ELSE a[2].context[1])
    /\ [][\A r \in Range(listeners) :
            Invokes(r) => Receiver(stack'[Len(stack')]) = r.context]_vars

\* a callback running with obj as receiver while a listener with the signal
\* as context (registered without options, or options without context) and
\* one with obj as context are registered
C12_Witness ==
    /\ stack # <<>>
    /\ Receiver(Top) = "obj"
    /\ \E r \in Range(listeners) : r.context = "this"
    /\ \E r \in Range(listeners) : r.context = "obj" /\ r = Top.listener

----------------------------------------------------------------------------
(* C13: dispatch(x, y) passes exactly its arguments, in their order, to    *)
(* every listener it invokes: the first invocation of a dispatch call      *)
(* receives the arguments of the call, and every dispatch call in progress *)
(* keeps delivering the same arguments, whatever nested dispatch calls the *)
(* callbacks make.                                                         *)
C13_ArgumentsDelivered ==
    [][/\ \A args \in MoreArgLists :
            (DispatchCall(args) /\ Len(stack') = Len(stack) + 1)
                => Arguments(stack'[Len(stack')]) = args
       /\ \A k \in 1..Len(stack) :
            k <= Len(stack') => Arguments(stack'[k]) = Arguments(stack[k])]_vars

\* a nested dispatch, called with other arguments than the dispatch whose
\* callback made it, is at its second listener
C13_Witness ==
    /\ Len(stack) = 2
    /\ Arguments(stack[1]) = <<"x", "y">>
    /\ Arguments(stack[2]) = <<"y", "x">>
    /\ stack[2].i = 1

----------------------------------------------------------------------------
(* C14: has(callback) is an operation of the signal: in every state the    *)
(* call raises no error, changes neither the listeners nor the counter,    *)
(* and returns true when a listener with that callback is registered and   *)
(* a falsy value (false, or undefined) when none is.                       *)
C14_HasTellsRegistered ==
    \A cb \in Functions :
        LET out == HasOutcome(cb) IN
        /\ out.thrown = "none"
        /\ out.listeners = listeners
        /\ out.dispatchNb = dispatchNb
        /\ IF \E r \in Range(listeners) : r.function = cb
           THEN out.returned = Some(TRUE)
           ELSE out.returned \in {Some(FALSE), Undefined}

----------------------------------------------------------------------------
(* C15: in every reachable state the listeners are sorted by               *)
(* non-increasing priority: no listener has a lower priority than a        *)
(* listener placed after it.                                               *)
C15_SortedByPriority ==
    \A j, k \in 1..Len(listeners) :
        j < k => ~LessThan(listeners[j].priority, listeners[k].priority)

----------------------------------------------------------------------------
(* C16: when dispatch invokes a once listener it removes that record only: *)
(* the step that invokes it leaves every other record registered (so the   *)
(* listeners placed after it can still be invoked by the same dispatch,    *)
(* and the other listeners are registered after the dispatch).             *)
C16_OnceRemovesOnlyItself ==
    [][\A r \in Range(listeners) :
         (r.once /\ Invokes(r))
             => Range(listeners') = Range(listeners) \ {r}]_vars

----------------------------------------------------------------------------
(* C17: the dispatch counter grows by exactly 1 on every dispatch call,    *)
(* nested or not, failing or not, and no other step changes it (it never   *)
(* decreases and is never reset).  A dispatch call made while the counter  *)
(* is below 512 (one of the first 512 calls) does not fail with            *)
(* DispatchLimitExceeded; every later call fails with it, invokes no       *)
(* listener and leaves the listeners as they were.                         *)
C17_CounterCountsDispatches ==
    [][IF DispatchCall(<<>>)
       THEN /\ dispatchNb' = dispatchNb + 1
            /\ dispatchNb < MAX_DISPATCH_NB
                   => thrown' # "DispatchLimitExceeded"
            /\ dispatchNb >= MAX_DISPATCH_NB
                   => /\ thrown' = "DispatchLimitExceeded"
                      /\ Len(stack') = Len(stack)
                      /\ listeners' = listeners
       ELSE dispatchNb' = dispatchNb]_vars

\* the 514th dispatch call has failed, at the top level, on a signal with a
\* listener
C17_Witness ==
    /\ stack = <<>>
    /\ thrown = "DispatchLimitExceeded"
    /\ dispatchNb = MAX_DISPATCH_NB + 2
    /\ listeners # <<>>

----------------------------------------------------------------------------
(* C18: in every reachable state no two registered records have the same   *)
(* (callback, context) pair; two records with the same callback and        *)
(* different contexts can be registered together.                          *)
C18_UniquePairs ==
    \A j, k \in 1..Len(listeners) :
        (/\ listeners[j].function = listeners[k].function
         /\ listeners[j].context = listeners[k].context) => j = k

\* the same callback registered under the signal and under obj, besides
\* another callback
C18_Witness ==
    /\ Len(listeners) = 3
    /\ \E j, k \in 1..Len(listeners) :
          /\ listeners[j].function = listeners[k].function
          /\ listeners[j].context = "this"
          /\ listeners[k].context = "obj"
    /\ thrown = "none"

----------------------------------------------------------------------------
(* C19: a once listener is removed before its callback runs, so a dispatch *)
(* called on the signal while that callback is running (by the callback    *)
(* itself, or deeper) does not invoke it again: no step invokes the record *)
(* of a once listener whose callback is running, unless an add or once     *)
(* call has registered listeners since.  The listener is thus invoked      *)
(* exactly once.                                                           *)
C19_OnceNotReinvoked ==
    [][\A k \in 1..Len(stack) :
         (stack[k].listener.once /\ "add" \notin stack[k].changes)
             => /\ stack[k].listener \notin Range(listeners)
                /\ ~Invokes(stack[k].listener)]_vars

\* the callback of a once listener has called dispatch, which is invoking
\* the listener registered before it
C19_Witness ==
    /\ Len(stack) = 2
    /\ stack[1].listener.once
    /\ stack[1].i = 1
    /\ "add" \notin stack[1].changes
    /\ ~stack[2].listener.once

----------------------------------------------------------------------------
(* C20: within a dispatch call whose callbacks call no dispatch, no record *)
(* is invoked more than once, also when callbacks call add or once during  *)
(* the dispatch.  In particular, in the only dispatch call made so far,    *)
(* during which nothing but add and once calls has changed the listeners,  *)
(* the dispatch never goes on from a record to the same record.            *)
C20_NoRecordInvokedTwice ==
    [][(/\ GoesOn
        /\ dispatchNb = 1
        /\ stack'[Len(stack')].changes \subseteq {"add"})
         => stack'[Len(stack')].listener # Top.listener]_vars

====
